---- MODULE Spec2Model ----
(***************************************************************************)
(* A model of src/dimensions.py: the DimensionsQuery object (construction, *)
(* the three setters, run_query, analyze_results) and the four aggregation *)
(* routines built on value_counts().head(10).                              *)
(*                                                                         *)
(* Python values are tagged records [kind, val]: a str is the sequence of  *)
(* its characters, a list the sequence of its items, None and a missing    *)
(* attribute carry an empty val.  Formatting is modelled character by      *)
(* character, so that a rendered query can be compared with a literal.     *)
(***************************************************************************)
EXTENDS Integers, Sequences, FiniteSets, TLC

VARIABLES
    env,        \* os.getenv("DIMENSIONS_API_KEY"): None or a str
    phase,      \* "none": no object exists; "live": __init__ has returned
    self,       \* the object's attributes
    logins,     \* number of dimcli.login calls made so far
    last,       \* the last call made by the caller and how it ended
    submitted,  \* the string handed to dsl.query by the last run_query
    response,   \* the last response dsl.query returned
    returned,   \* the value the last run_query returned
    calls,      \* the aggregation routines the last analyze_results invoked
    base,       \* SpecOrder: the object before the setters in recent
    recent,     \* SpecOrder: the last (at most two) setter calls
    df,         \* SpecAgg: the table handed to an aggregation routine
    out         \* SpecAgg: the routine applied last and its top_* series

vars == <<env, phase, self, logins, last, submitted, response, returned,
          calls, base, recent, df, out>>

-----------------------------------------------------------------------------
(* Python values *)

None == [kind |-> "None", val |-> <<>>]
Unset == [kind |-> "unset", val |-> <<>>]
Str(s) == [kind |-> "str", val |-> s]
List(items) == [kind |-> "list", val |-> items]

\* bool(v) as the if statements of update_query use it
TruthyNotNone(v) == v.kind # "None"
Truthy(v) == v.kind # "None" /\ Len(v.val) > 0

RECURSIVE JoinRepr(_)
\* ", ".join(repr(x) for x in items), items being strs without quotes in them
JoinRepr(items) ==
    IF Len(items) = 0 THEN <<>>
    ELSE <<"'">> \o Head(items) \o <<"'">>
         \o (IF Len(items) = 1 THEN <<>> ELSE <<",", " ">>)
         \o JoinRepr(Tail(items))

RECURSIVE JoinPlus(_)
JoinPlus(items) ==
    IF Len(items) = 0 THEN <<>>
    ELSE Head(items) \o (IF Len(items) = 1 THEN <<>> ELSE <<"+">>)
         \o JoinPlus(Tail(items))

\* a list formatted as its items joined by '+'
FormatJoined(v) ==
    CASE v.kind = "str" -> v.val
      [] v.kind = "list" -> JoinPlus(v.val)
      [] OTHER -> <<"N", "o", "n", "e">>

\* format(v, ""): what an f-string replacement field {v} produces
Format(v) ==
    CASE v.kind = "str" -> v.val
      [] v.kind = "list" -> <<"[">> \o JoinRepr(v.val) \o <<"]">>
      [] OTHER -> <<"N", "o", "n", "e">>

-----------------------------------------------------------------------------
(* The literal pieces of the two f-strings of update_query *)

kw_search == <<"s", "e", "a", "r", "c", "h", " ">>
kw_for == <<" ", "f", "o", "r", " ", "\"">>
kw_quote == <<"\"">>
kw_where == <<" ", "w", "h", "e", "r", "e", " ">>
kw_return == <<"r", "e", "t", "u", "r", "n", " ">>
sp == <<" ">>

\* _return, lines 57-60
ReturnClause(o) ==
    IF Truthy(o.return_cols)
    THEN kw_return \o Format(o.search) \o <<"[">> \o Format(o.return_cols) \o <<"]">>
    ELSE kw_return \o Format(o.search)

\* the string update_query assigns to self.query, lines 62-65
Render(o) ==
    IF Truthy(o.where)
    THEN kw_search \o Format(o.search) \o kw_for \o Format(o.topic) \o kw_quote
         \o kw_where \o Format(o.where) \o sp \o ReturnClause(o)
    ELSE kw_search \o Format(o.search) \o kw_for \o Format(o.topic) \o kw_quote
         \o sp \o ReturnClause(o)

update_query(o) == [o EXCEPT !.query = Str(Render(o))]

\* setters that overwrite the field and forget to re-render
update_topic_stale(o, t) == [o EXCEPT !.topic = t]
update_where_stale(o, w) == [o EXCEPT !.where = w]

update_topic(o, t) == update_query([o EXCEPT !.topic = t])
update_where(o, w) == update_query([o EXCEPT !.where = w])
update_search(o, s) == update_query([o EXCEPT !.search = s])

-----------------------------------------------------------------------------
(* Arguments the caller passes *)

Topics == {Str(<<"m", "l">>), Str(<<"a", "i">>)}
Wheres == {None, Str(<<>>), Str(<<"X">>)}
Searches == {Str(<<"p", "u", "b", "s">>), Str(<<"g", "r", "a", "n", "t", "s">>)}
ColsAB == Str(<<"a", "+", "b">>)
ListAB == List(<< <<"a">>, <<"b">> >>)
ReturnCols == {None, Str(<<>>), ColsAB, ListAB}
Keys == {None, Str(<<"k">>)}

-----------------------------------------------------------------------------
(* Result tables.  A table (the DataFrame as_dataframe() builds) is a       *)
(* sequence of rows; a cell the record did not carry is NaN.  Categorical    *)
(* values (journal titles, researcher ids, countries, institution names)     *)
(* are positive integers; NA stands for None / NaN.                          *)

NA == 0
TopN == 10

Affil(c, n) == [country |-> c, name |-> n]
Author(r, affs) == [researcher_id |-> r, affiliations |-> affs]
\* has_authors = FALSE: the 'authors' cell of the row is NaN
Row(j, authors) == [journal |-> j, has_authors |-> TRUE, authors |-> authors]
RowNoAuthors(j) == [journal |-> j, has_authors |-> FALSE, authors |-> <<>>]

Min(a, b) == IF a < b THEN a ELSE b

\* Series.head(n) with n one too large
HeadOffByOne(s) == SubSeq(s, 1, Min(TopN + 1, Len(s)))
\* Series.head(10), lines 161, 186, 211, 236
HeadTop(s) == SubSeq(s, 1, Min(TopN, Len(s)))

\* value_counts(dropna=False): None is counted like any other value
KeepNa(col) == col
\* value_counts() leaves None / NaN out of the count (dropna=True, its default)
DropNa(col) == SelectSeq(col, LAMBDA x : x # NA)

RECURSIVE Unique(_)
\* the distinct values of col in order of first appearance
Unique(col) ==
    IF Len(col) = 0 THEN <<>>
    ELSE <<Head(col)>> \o Unique(SelectSeq(Tail(col), LAMBDA x : x # Head(col)))

Count(col, v) == Cardinality({i \in DOMAIN col : col[i] = v})

Remove(s, i) == SubSeq(s, 1, i - 1) \o SubSeq(s, i + 1, Len(s))

\* The position sort_values(ascending=False) puts first among the rows left:
\* one of largest count.  Which of several equal counts comes first is the
\* sorting routine's business (the default kind is quicksort, which is not
\* stable): "stable" keeps first appearance, "unstable" is a build whose
\* sort returns equal counts the other way round.
PickMax(rows, kind) ==
    LET best == {i \in DOMAIN rows : \A j \in DOMAIN rows : rows[j].count <= rows[i].count}
    IN IF kind = "stable"
       THEN CHOOSE i \in best : \A j \in best : i <= j
       ELSE CHOOSE i \in best : \A j \in best : j <= i

RECURSIVE SortDesc(_, _)
SortDesc(rows, kind) ==
    IF Len(rows) = 0 THEN <<>>
    ELSE LET i == PickMax(rows, kind)
         IN <<rows[i]>> \o SortDesc(Remove(rows, i), kind)

SortKinds == {"stable", "unstable"}

\* Series.value_counts(), lines 160, 185, 210, 235
ValueCounts(col, kind) ==
    LET vals == DropNa(col)
        keys == Unique(vals)
    IN SortDesc([i \in DOMAIN keys |-> [value |-> keys[i], count |-> Count(vals, keys[i])]],
                kind)

Ok(table) == [error |-> "none", table |-> table]
Raised(e) == [error |-> e, table |-> <<>>]

RECURSIVE Concat(_)
Concat(ss) == IF Len(ss) = 0 THEN <<>> ELSE Head(ss) \o Concat(Tail(ss))

\* [author for authors in df['authors'] for author in authors]
Flatten(t) == Concat([i \in DOMAIN t |-> t[i].authors])
\* iterating a NaN 'authors' cell raises TypeError
FlattenRaises(t) == \E i \in DOMAIN t : ~t[i].has_authors

\* lambda x: x[0]['country'] if x else None
FirstCountry(a) == IF Len(a.affiliations) > 0 THEN a.affiliations[1].country ELSE NA
\* lambda x: x[0]['name'] if x else None
FirstName(a) == IF Len(a.affiliations) > 0 THEN a.affiliations[1].name ELSE NA

\* the column each routine counts
JournalColumn(t) == [i \in DOMAIN t |-> t[i].journal]
AuthorColumn(t) == LET flat == Flatten(t) IN [i \in DOMAIN flat |-> flat[i].researcher_id]
CountryColumn(t) == LET flat == Flatten(t) IN [i \in DOMAIN flat |-> FirstCountry(flat[i])]
InstitutionColumn(t) == LET flat == Flatten(t) IN [i \in DOMAIN flat |-> FirstName(flat[i])]

\* top_journals; the table has a 'journal.title' column only if some record
\* carried a journal
plot_most_common_journal(t, kind) ==
    IF \A i \in DOMAIN t : t[i].journal = NA THEN Raised("KeyError")
    ELSE Ok(HeadTop(ValueCounts(JournalColumn(t), kind)))

\* the three routines over the flattened authors: a DataFrame built from an
\* empty list has no columns, so selecting one raises KeyError
AuthorRoutine(t, col, kind) ==
    IF FlattenRaises(t) THEN Raised("TypeError")
    ELSE IF Len(Flatten(t)) = 0 THEN Raised("KeyError")
    ELSE Ok(HeadTop(ValueCounts(col, kind)))

plot_publications_per_author(t, kind) == AuthorRoutine(t, AuthorColumn(t), kind)
plot_most_common_country(t, kind) == AuthorRoutine(t, CountryColumn(t), kind)
plot_most_common_institutions(t, kind) == AuthorRoutine(t, InstitutionColumn(t), kind)

Routines == <<"journal", "author", "country", "institution">>

Column(r, t) ==
    CASE r = "journal" -> JournalColumn(t)
      [] r = "author" -> AuthorColumn(t)
      [] r = "country" -> CountryColumn(t)
      [] OTHER -> InstitutionColumn(t)

Plot(r, t, kind) ==
    CASE r = "journal" -> plot_most_common_journal(t, kind)
      [] r = "author" -> plot_publications_per_author(t, kind)
      [] r = "country" -> plot_most_common_country(t, kind)
      [] OTHER -> plot_most_common_institutions(t, kind)

-----------------------------------------------------------------------------
(* Tables the remote service can answer with *)

MaxRecords == 16
MaxDistinct == 15
MaxHole == 3

\* three records: record 1 has a US author and an author without affiliation,
\* records 2 and 3 one US author each (country 1 is US)
ExampleTable ==
    << Row(1, <<Author(1, <<Affil(1, 1)>>), Author(2, <<>>)>>),
       Row(1, <<Author(3, <<Affil(1, 2)>>)>>),
       Row(2, <<Author(1, <<Affil(1, 1)>>)>>) >>

EmptyTable == <<>>
NoAuthorsTable == << Row(1, <<Author(1, <<Affil(1, 1)>>)>>), RowNoAuthors(2) >>

\* The value of record i: the first m records carry 1..m; later ones run
\* through the values forwards (back = 0) or backwards from m (back = 1), so
\* that values seen late can have the larger counts.
ValueAt(i, m, back) ==
    IF i <= m \/ back = 0 THEN ((i - 1) % m) + 1 ELSE m - ((i - m - 1) % m)

\* Every h-th record carries no journal and has a second author with no
\* researcher id and no affiliation.
GenRow(i, m, h, back) ==
    LET v == ValueAt(i, m, back)
        a == Author(v, <<Affil(((v - 1) % 3) + 1, v)>>)
    IN IF h > 0 /\ i % h = 0
       THEN Row(NA, <<a, Author(NA, <<>>)>>)
       ELSE Row(v, <<a>>)

GenTable(n, m, h, back) == [i \in 1..n |-> GenRow(i, m, h, back)]

Tables ==
    {ExampleTable, EmptyTable, NoAuthorsTable}
    \cup UNION {{GenTable(n, m, h, back) : m \in 1..Min(n, MaxDistinct), h \in 0..MaxHole,
                                           back \in {0, 1}} : n \in 1..MaxRecords}

-----------------------------------------------------------------------------
(* The object *)

NoObject ==
    [api_key |-> Unset, dsl |-> Unset, topic |-> Unset, where |-> Unset,
     search |-> Unset, return_cols |-> Unset, query |-> Unset, results |-> Unset]

\* validate_key with the check of line 45 left out
validate_key_unchecked(key) == FALSE
\* validate_key raises ValueError, lines 45-46
validate_key_raises(key) == key = None

\* __init__ once validate_key has returned, lines 29-36; self.results is not
\* assigned
Constructed(key, t, w, s, rc) ==
    update_query([NoObject EXCEPT !.api_key = key, !.dsl = Str(<<"d", "s", "l">>),
                                  !.topic = t, !.where = w, !.search = s,
                                  !.return_cols = rc])

Call(op, error) == [op |-> op, error |-> error]

\* what dsl.query answers: records, the server's error list, the match count
Response(t, errs) == [data |-> t, errors |-> errs, total_count |-> Len(t)]
Responses ==
    {Response(ExampleTable, <<>>), Response(ExampleTable, <<"e">>),
     Response(EmptyTable, <<>>), Response(NoAuthorsTable, <<"e">>)}
NoResponse == Response(<<>>, <<"-">>)

\* response.as_dataframe(): the records as a table; errors and stats are not in it
AsDataframe(r) == [kind |-> "DataFrame", val |-> r.data]
Native(r) == [kind |-> "DslDataset", val |-> r]

\* run_query that keeps a response only when the server reported no error
StoredIfClean(o, r, as_df) ==
    IF r.errors = <<>> THEN [o EXCEPT !.results = IF as_df THEN AsDataframe(r) ELSE Native(r)]
    ELSE o
\* lines 115-118: self.results = response
Stored(o, r, as_df) ==
    [o EXCEPT !.results = IF as_df THEN AsDataframe(r) ELSE Native(r)]

\* the table analyze_results works on, lines 134-137
TableOf(res) == IF res.kind = "DataFrame" THEN res.val ELSE res.val.data

\* the four calls in another order
AnalyzeOrderSwapped == <<"journal", "country", "author", "institution">>
\* the order of the calls of lines 140-149
AnalyzeOrder == <<"journal", "author", "country", "institution">>

\* the calls analyze_results gets to make on table t: all four, or those up to
\* and including the first that raises
Failing(t) == {i \in DOMAIN AnalyzeOrder : Plot(AnalyzeOrder[i], t, "stable").error # "none"}
FirstFailing(t) == CHOOSE i \in Failing(t) : \A j \in Failing(t) : i <= j
CallsMade(t) ==
    LET n == IF Failing(t) = {} THEN Len(AnalyzeOrder) ELSE FirstFailing(t)
    IN [i \in 1..n |-> [routine |-> AnalyzeOrder[i], df |-> t]]
AnalyzeError(t) ==
    IF Failing(t) = {} THEN "none"
    ELSE Plot(AnalyzeOrder[FirstFailing(t)], t, "stable").error

NoOut == [routine |-> "none", result |-> Ok(<<>>)]

Idle ==
    /\ submitted = Unset
    /\ response = NoResponse
    /\ returned = Unset
    /\ calls = <<>>

NoOrder == base = NoObject /\ recent = <<>>
NoAgg == df = <<>> /\ out = NoOut

Init ==
    /\ env \in Keys
    /\ phase = "none"
    /\ self = NoObject
    /\ logins = 0
    /\ last = Call("import", "none")
    /\ Idle
    /\ NoOrder
    /\ NoAgg

\* DimensionsQuery(topic, where, search, return_cols), lines 26-36
Construct ==
    \E t \in Topics, w \in Wheres, s \in Searches, rc \in ReturnCols :
        /\ phase = "none"
        /\ IF validate_key_raises(env)
           THEN /\ last' = Call("construct", "ValueError")
                /\ UNCHANGED <<phase, self, logins>>
           ELSE /\ logins' = logins + 1
                /\ self' = Constructed(env, t, w, s, rc)
                /\ phase' = "live"
                /\ last' = Call("construct", "none")
        /\ UNCHANGED <<env, submitted, response, returned, calls, base, recent, df, out>>

UpdateTopic ==
    \E t \in Topics :
        /\ phase = "live"
        /\ self' = update_topic(self, t)
        /\ last' = Call("update_topic", "none")
        /\ UNCHANGED <<env, phase, logins, submitted, response, returned, calls,
                       base, recent, df, out>>

UpdateWhere ==
    \E w \in Wheres :
        /\ phase = "live"
        /\ self' = update_where(self, w)
        /\ last' = Call("update_where", "none")
        /\ UNCHANGED <<env, phase, logins, submitted, response, returned, calls,
                       base, recent, df, out>>

UpdateSearch ==
    \E s \in Searches :
        /\ phase = "live"
        /\ self' = update_search(self, s)
        /\ last' = Call("update_search", "none")
        /\ UNCHANGED <<env, phase, logins, submitted, response, returned, calls,
                       base, recent, df, out>>

\* run_query(df), lines 108-119.  dsl.query either raises (auth, transport) or
\* answers; the answer is stored and a copy of it returned.  The answers are
\* those that carry data and stats; response.copy() is the response object's
\* own method (DataFrame.copy for df=True) and is taken to return an equal value.
RunQuery ==
    \E as_df \in BOOLEAN, answer \in Responses \cup {NoResponse} :
        /\ phase = "live"
        /\ IF self.query = None
           THEN /\ last' = Call("run_query", "ValueError")
                /\ UNCHANGED <<self, submitted, response, returned>>
           ELSE /\ submitted' = self.query
                /\ IF answer = NoResponse
                   THEN /\ last' = Call("run_query", "RemoteError")
                        /\ UNCHANGED <<self, response, returned>>
                   ELSE /\ response' = answer
                        /\ self' = Stored(self, answer, as_df)
                        /\ returned' = self'.results
                        /\ last' = Call("run_query", "none")
        /\ UNCHANGED <<env, phase, logins, calls, base, recent, df, out>>

\* analyze_results(), lines 130-149.  Reading self.results before any
\* run_query has assigned it raises AttributeError.
AnalyzeResults ==
    /\ phase = "live"
    /\ IF self.results = Unset
       THEN /\ last' = Call("analyze_results", "AttributeError")
            /\ calls' = <<>>
       ELSE IF self.results = None
       THEN /\ last' = Call("analyze_results", "ValueError")
            /\ calls' = <<>>
       ELSE /\ calls' = CallsMade(TableOf(self.results))
            /\ last' = Call("analyze_results", AnalyzeError(TableOf(self.results)))
    /\ UNCHANGED <<env, phase, self, logins, submitted, response, returned,
                   base, recent, df, out>>

Next ==
    \/ Construct
    \/ UpdateTopic
    \/ UpdateWhere
    \/ UpdateSearch
    \/ RunQuery
    \/ AnalyzeResults

Spec == Init /\ [][Next]_vars

-----------------------------------------------------------------------------
(* Setter calls in sequence: the object as it was two setter calls ago is    *)
(* kept beside the two calls made since.                                     *)

SetterCall(op, arg) == [op |-> op, arg |-> arg]

ApplySetter(o, c) ==
    CASE c.op = "update_topic" -> update_topic(o, c.arg)
      [] c.op = "update_where" -> update_where(o, c.arg)
      [] OTHER -> update_search(o, c.arg)

Track(c) ==
    IF Len(recent) < 2
    THEN recent' = Append(recent, c) /\ base' = base
    ELSE recent' = <<recent[2], c>> /\ base' = ApplySetter(base, recent[1])

InitOrder ==
    /\ env = Str(<<"k">>)
    /\ phase = "live"
    /\ \E t \in Topics, w \in Wheres, s \in Searches, rc \in ReturnCols :
           self = Constructed(env, t, w, s, rc)
    /\ logins = 1
    /\ last = Call("construct", "none")
    /\ Idle
    /\ base = self
    /\ recent = <<>>
    /\ NoAgg

OrderedUpdateTopic ==
    \E t \in Topics :
        /\ self' = update_topic(self, t)
        /\ last' = Call("update_topic", "none")
        /\ Track(SetterCall("update_topic", t))
        /\ UNCHANGED <<env, phase, logins, submitted, response, returned, calls, df, out>>

OrderedUpdateWhere ==
    \E w \in Wheres :
        /\ self' = update_where(self, w)
        /\ last' = Call("update_where", "none")
        /\ Track(SetterCall("update_where", w))
        /\ UNCHANGED <<env, phase, logins, submitted, response, returned, calls, df, out>>

OrderedUpdateSearch ==
    \E s \in Searches :
        /\ self' = update_search(self, s)
        /\ last' = Call("update_search", "none")
        /\ Track(SetterCall("update_search", s))
        /\ UNCHANGED <<env, phase, logins, submitted, response, returned, calls, df, out>>

NextOrder ==
    \/ OrderedUpdateTopic
    \/ OrderedUpdateWhere
    \/ OrderedUpdateSearch

SpecOrder == InitOrder /\ [][NextOrder]_vars

-----------------------------------------------------------------------------
(* The aggregation routines applied to a table *)

InitAgg ==
    /\ env = Str(<<"k">>)
    /\ phase = "live"
    /\ self = Constructed(env, Str(<<"m", "l">>), None, Str(<<"p", "u", "b", "s">>), None)
    /\ logins = 1
    /\ last = Call("construct", "none")
    /\ Idle
    /\ NoOrder
    /\ df \in Tables
    /\ out = NoOut

AggUnchanged ==
    UNCHANGED <<env, phase, self, logins, submitted, response, returned, calls,
                base, recent, df>>

PlotJournal ==
    \E kind \in SortKinds :
        /\ out' = [routine |-> "journal", result |-> plot_most_common_journal(df, kind)]
        /\ last' = Call("plot_most_common_journal", out'.result.error)
        /\ AggUnchanged

PlotAuthor ==
    \E kind \in SortKinds :
        /\ out' = [routine |-> "author", result |-> plot_publications_per_author(df, kind)]
        /\ last' = Call("plot_publications_per_author", out'.result.error)
        /\ AggUnchanged

PlotCountry ==
    \E kind \in SortKinds :
        /\ out' = [routine |-> "country", result |-> plot_most_common_country(df, kind)]
        /\ last' = Call("plot_most_common_country", out'.result.error)
        /\ AggUnchanged

PlotInstitutions ==
    \E kind \in SortKinds :
        /\ out' = [routine |-> "institution",
                   result |-> plot_most_common_institutions(df, kind)]
        /\ last' = Call("plot_most_common_institutions", out'.result.error)
        /\ AggUnchanged

NextAgg ==
    \/ PlotJournal
    \/ PlotAuthor
    \/ PlotCountry
    \/ PlotInstitutions

SpecAgg == InitAgg /\ [][NextAgg]_vars

-----------------------------------------------------------------------------
(* The claims *)

Live == phase = "live"

\* C1: in every state reached by constructing the object and applying any
\* sequence of update_topic, update_where and update_search, the stored query
\* is the rendering of the current topic, where, search and return_cols.
C1_QueryNeverStale == Live => self.query = Str(Render(self))

C1_Witness ==
    /\ Live
    /\ last.op = "update_where"
    /\ self.where = Str(<<"X">>)
    /\ self.query = Str(Render(self))

\* The rendered query written out: the fixed tokens in the order search / for
\* / where / return, the where segment present when hasWhere, the bracketed
\* projection present when hasProj.
QueryText(o, hasWhere, hasProj) ==
    <<"s", "e", "a", "r", "c", "h", " ">> \o o.search.val
    \o <<" ", "f", "o", "r", " ", "\"">> \o o.topic.val \o <<"\"">>
    \o (IF hasWhere THEN <<" ", "w", "h", "e", "r", "e", " ">> \o o.where.val ELSE <<>>)
    \o <<" ", "r", "e", "t", "u", "r", "n", " ">> \o o.search.val
    \o (IF hasProj THEN <<"[">> \o Format(o.return_cols) \o <<"]">> ELSE <<>>)

\* C2 as stated: the where segment appears exactly when a filter is given (is
\* not None) and the projection segment exactly when a projection is given.
C2_SegmentsWhenGiven ==
    Live => self.query.val = QueryText(self, self.where # None, self.return_cols # None)

\* C2, amended: with no filter and no projection the query is exactly
\* search <target> for "<topic>" return <target>; the where segment appears
\* exactly when the filter is a non-empty string and the projection segment
\* exactly when the projection is non-empty (an empty string counts as absent).
C2_SegmentsWhenNonEmpty ==
    Live => self.query.val =
                QueryText(self,
                          self.where # None /\ self.where.val # <<>>,
                          self.return_cols # None /\ self.return_cols.val # <<>>)

C2_Witness ==
    /\ Live
    /\ self.where = Str(<<>>)
    /\ self.return_cols = None
    /\ self.query.val = QueryText(self, FALSE, FALSE)

\* C3 as stated: with filter "X" and the projection given as the list
\* ["a", "b"], the query ends in where X return <target>[a+b].
C3_ListJoinedByPlus ==
    (Live /\ self.where = Str(<<"X">>) /\ self.return_cols = ListAB)
        => self.query.val = QueryText([self EXCEPT !.return_cols = ColsAB], TRUE, TRUE)

\* C3, amended: with filter "X" the projection given as the string "a+b" is
\* rendered as [a+b]; given as the list ["a", "b"] it is rendered as the
\* list's own text, [['a', 'b']].
C3_StringProjection ==
    (Live /\ self.where = Str(<<"X">>)) =>
        /\ self.return_cols = ColsAB =>
               self.query.val = QueryText(self, TRUE, FALSE) \o <<"[", "a", "+", "b", "]">>
        /\ self.return_cols = ListAB =>
               self.query.val = QueryText(self, TRUE, FALSE)
                   \o <<"[", "[", "'", "a", "'", ",", " ", "'", "b", "'", "]", "]">>

C3_Witness ==
    /\ Live
    /\ self.where = Str(<<"X">>)
    /\ self.return_cols = ListAB
    /\ last.op = "update_where"

\* C4: analyze_results on an object whose run_query never stored a result
\* ends in the 'No results to analyze' ValueError and calls no routine.
C4_AnalyzeBeforeRun ==
    (last.op = "analyze_results" /\ self.results = Unset)
        => (last.error = "ValueError" /\ calls = <<>>)

\* C6: with DIMENSIONS_API_KEY absent, construction ends in ValueError, no
\* login is made, no object with a rendered query exists and no query is
\* ever submitted.
C6_NoCredentialNoObject ==
    env = None =>
        /\ phase = "none"
        /\ logins = 0
        /\ self = NoObject
        /\ submitted = Unset
        /\ last.op = "construct" => last.error = "ValueError"

C6_Witness == env = None /\ last = Call("construct", "ValueError")

\* C9: an analyze_results call that succeeds has run journal, author,
\* country, institution once each in that order, each on the table of the
\* stored result set, and has left every attribute of the object unchanged.
C9_FourRoutinesInOrder ==
    [][(last'.op = "analyze_results" /\ last'.error = "none") =>
           /\ calls' = [i \in 1..4 |->
                           [routine |-> Routines[i], df |-> TableOf(self.results)]]
           /\ self' = self]_vars

C9_Witness ==
    /\ last = Call("analyze_results", "none")
    /\ Len(calls) = 4
    /\ self.results.kind = "DslDataset"

C7_SettersCommute ==
    (Len(recent) = 2 /\ recent[1].op # recent[2].op)
        => self.query = ApplySetter(ApplySetter(base, recent[2]), recent[1]).query

C7_Witness ==
    /\ Len(recent) = 2
    /\ recent[1] = SetterCall("update_where", Str(<<"X">>))
    /\ recent[2].op = "update_topic"
    /\ base.where = None
    /\ base.topic # self.topic

-----------------------------------------------------------------------------
(* Claims about the frequency tables *)

Produced == out.routine # "none" /\ out.result.error = "none"
Counted(col) == {col[i] : i \in DOMAIN col} \ {NA}
Occurrences(col, v) == Cardinality({i \in DOMAIN col : col[i] = v})
FirstSeen(col, v) == CHOOSE i \in DOMAIN col : col[i] = v /\ \A j \in 1..(i - 1) : col[j] # v
Shown(tbl) == {tbl[i].value : i \in DOMAIN tbl}

\* min(10, distinct counted values) rows, each a counted value with its number
\* of occurrences, no value twice, counts non-increasing, no omitted value
\* counted more often than a shown one
TopTenByCount ==
    LET tbl == out.result.table
        col == Column(out.routine, df)
        counted == Counted(col)
    IN /\ Len(tbl) = (IF Cardinality(counted) < 10 THEN Cardinality(counted) ELSE 10)
       /\ \A i \in DOMAIN tbl :
              tbl[i].value \in counted /\ tbl[i].count = Occurrences(col, tbl[i].value)
       /\ \A i, j \in DOMAIN tbl : i < j =>
              (tbl[i].value # tbl[j].value /\ tbl[i].count >= tbl[j].count)
       /\ \A v \in counted \ Shown(tbl) :
              \A i \in DOMAIN tbl : Occurrences(col, v) <= tbl[i].count

TiesByFirstSeen ==
    LET tbl == out.result.table
        col == Column(out.routine, df)
    IN \A i, j \in DOMAIN tbl :
           (i < j /\ tbl[i].count = tbl[j].count)
               => FirstSeen(col, tbl[i].value) < FirstSeen(col, tbl[j].value)

\* C8 as stated: the table has min(10, distinct counted values) rows in
\* non-increasing count, no omitted value exceeding a shown one, and equal
\* counts in order of first appearance.
C8_TopTenTiesFirstSeen == Produced => (TopTenByCount /\ TiesByFirstSeen)

\* C8, amended: every table a routine produces has min(10, distinct counted
\* values) rows in non-increasing count, no omitted value exceeding a shown
\* one; the order among equal counts is left to the library's sort.
C8_TopTen == Produced => TopTenByCount

C8_Witness ==
    /\ Produced
    /\ out.routine = "journal"
    /\ Cardinality(Counted(JournalColumn(df))) = 15
    /\ Len(out.result.table) = 10
    /\ out.result.table[1].count > out.result.table[10].count
    /\ FirstSeen(JournalColumn(df), out.result.table[1].value)
           > FirstSeen(JournalColumn(df), out.result.table[10].value)

NoAffiliation == {i \in DOMAIN Flatten(df) : Len(Flatten(df)[i].affiliations) = 0}
FirstField(a) ==
    IF out.routine = "country" THEN a.affiliations[1].country ELSE a.affiliations[1].name
Affiliated(v) ==
    {i \in DOMAIN Flatten(df) \ NoAffiliation : FirstField(Flatten(df)[i]) = v}
OnAffiliations == Produced /\ out.routine \in {"country", "institution"}

====
